---------------------------- MODULE Spec2Model ----------------------------
(***************************************************************************)
(* Model of src/app.py, the Modern Sabahlar player: one Streamlit script   *)
(* that is re-executed top to bottom on every user interaction.            *)
(*                                                                         *)
(* Strings are tuples of one-character strings, so that strip, lower,      *)
(* endswith, substring search and the date pattern are computed character  *)
(* by character as the Python code computes them.                          *)
(*                                                                         *)
(* The module holds several specifications over the same variables, one    *)
(* per group of state that the script keeps independent of the others:     *)
(*   Spec       the browsing session (lines 149-331) and the progress file *)
(*   SpecToken  the download token of a session (lines 48-64, 149, 209-220)*)
(*   SpecStore  write_progress step by step, with crashes (lines 26-46)    *)
(*   SpecFn     pick_last_for_folder and the write/read round trip as      *)
(*              functions of arbitrary stored records                      *)
(*   SpecNorm   normalize_child_weblink on arbitrary names and weblinks    *)
(*   SpecRead   read_progress and its callers on arbitrary file contents   *)
(* A specification leaves the variables of the other groups unchanged.     *)
(* now_ts is read by get_download_token only, so its increment (line 149)  *)
(* is modelled in SpecToken and not in Spec.                               *)
(***************************************************************************)
EXTENDS Integers, Sequences, FiniteSets, TLC

VARIABLES
    \* ---- st.session_state of the browsing session
    last_share,     \* st.session_state.last_share, None while absent
    nav,            \* st.session_state.nav, <<>> while absent
    offset,         \* st.session_state.offset
    loaded_files,   \* st.session_state.loaded_files
    loaded_folders, \* st.session_state.loaded_folders
    selected_name,  \* st.session_state.selected_name, None while absent
    \* ---- the page: widget state and the position of the running script
    q_text,         \* value held by the search text_input (after strip/lower)
    pc,             \* "idle", or the point the running script has reached
    ev,             \* the widget event that triggered the running script
    arg,            \* that event's value (a share text, a name, a filter)
    rerun,          \* TRUE when st.rerun() was called and the rerun is due
    shown,          \* how far the last finished run rendered the page
    \* ---- the file system
    progress_file,  \* content of PROGRESS_PATH: a token sequence, or Missing
    tmp_file,       \* per writer: content of its mkstemp file, or Missing
    leftover,       \* number of temp files left behind by crashes
    wpc,            \* per writer: position inside update_progress
    wd,             \* per writer: the dict handed to write_progress
    \* ---- the token manager
    now_ts,         \* st.session_state.now_ts
    token,          \* st.session_state.token, 0 while absent
    token_ts,       \* st.session_state.token_ts, -1 while absent
    memo_token,     \* st.cache_data entry of get_download_token_cached, 0 if none
    issued,         \* number of tokens the remote service has issued
    tpc,            \* "idle", or why st.rerun() is due: "rerun", "refreshed"
    got,            \* the branch get_download_token took in the last step
    \* ---- arguments and result of a pure function under test
    call,
    result

navVars   == <<last_share, nav, offset, loaded_files, loaded_folders, selected_name>>
pageVars  == <<q_text, pc, ev, arg, rerun, shown>>
storeVars == <<tmp_file, leftover, wpc, wd>>
tokenVars == <<now_ts, token, token_ts, memo_token, issued, tpc, got>>
pureVars  == <<call, result>>
vars == <<navVars, pageVars, progress_file, storeVars, tokenVars, pureVars>>

(***************************************************************************)
(* Characters and strings                                                  *)
(***************************************************************************)

\* Python's None, as a value comparable with strings.
None == <<"None">>

EmptyStr == <<>>

\* The characters the model uses, in ascending code point order.
AsciiOrder ==
    << " ", ".", "/",
       "0", "1", "2", "3", "4", "5", "6", "7", "8", "9",
       "A", "B", "C", "D", "E", "F", "G", "H", "I", "J", "K", "L", "M",
       "N", "O", "P", "Q", "R", "S", "T", "U", "V", "W", "X", "Y", "Z",
       "_",
       "a", "b", "c", "d", "e", "f", "g", "h", "i", "j", "k", "l", "m",
       "n", "o", "p", "q", "r", "s", "t", "u", "v", "w", "x", "y", "z" >>

Chars == {AsciiOrder[i] : i \in 1..Len(AsciiOrder)}

\* Position of a character in code point order (order-preserving ord()).
Ord == [c \in Chars |-> CHOOSE i \in 1..Len(AsciiOrder) : AsciiOrder[i] = c]

UpperFirst == Ord["A"]
UpperLast  == Ord["Z"]
LowerFirst == Ord["a"]

\* str.lower() on one character.
LowerChar == [c \in Chars |->
    IF Ord[c] >= UpperFirst /\ Ord[c] <= UpperLast
    THEN AsciiOrder[Ord[c] - UpperFirst + LowerFirst]
    ELSE c]

\* str.lower()
Lower(s) == [i \in 1..Len(s) |-> LowerChar[s[i]]]

Digits == {"0", "1", "2", "3", "4", "5", "6", "7", "8", "9"}

DigitVal(c) == Ord[c] - Ord["0"]

\* int() of a two-digit group
Int2(s, i) == 10 * DigitVal(s[i]) + DigitVal(s[i + 1])

\* Python's < on strings: lexicographic by code point.
RECURSIVE StrLess(_, _)
StrLess(a, b) ==
    IF b = <<>> THEN FALSE
    ELSE IF a = <<>> THEN TRUE
    ELSE IF a[1] = b[1] THEN StrLess(Tail(a), Tail(b))
    ELSE Ord[a[1]] < Ord[b[1]]

\* s.endswith(t)
EndsWith(s, t) ==
    /\ Len(t) <= Len(s)
    /\ SubSeq(s, Len(s) - Len(t) + 1, Len(s)) = t

\* t in s, for strings
Contains(s, t) ==
    \E i \in 0..(Len(s) - Len(t)) : SubSeq(s, i + 1, i + Len(t)) = t

\* s.lstrip(cs), s.rstrip(cs), s.strip(cs) for a set of characters cs
RECURSIVE LStrip(_, _)
LStrip(s, cs) ==
    IF s # <<>> /\ s[1] \in cs THEN LStrip(Tail(s), cs) ELSE s

RECURSIVE RStrip(_, _)
RStrip(s, cs) ==
    IF s # <<>> /\ s[Len(s)] \in cs THEN RStrip(SubSeq(s, 1, Len(s) - 1), cs) ELSE s

Strip(s, cs) == LStrip(RStrip(s, cs), cs)

\* The whitespace of the model's alphabet, for str.strip() without argument.
Whitespace == {" "}

Slash == {"/"}

(***************************************************************************)
(* Sort keys (lines 106-124)                                               *)
(***************************************************************************)

DateLen == 28

\* date_re: Modern[_ ]Sabahlar[_ ](\d{2})_(\d{2})_(\d{2})\.mp3$, IGNORECASE.
\* The pattern has a fixed length, so search() matches exactly when the last
\* DateLen characters match it.
DateMatch(s) ==
    /\ Len(s) >= DateLen
    /\ LET t == Lower(SubSeq(s, Len(s) - DateLen + 1, Len(s)))
       IN  /\ SubSeq(t, 1, 6) = <<"m", "o", "d", "e", "r", "n">>
           /\ t[7] \in {"_", " "}
           /\ SubSeq(t, 8, 15) = <<"s", "a", "b", "a", "h", "l", "a", "r">>
           /\ t[16] \in {"_", " "}
           /\ t[17] \in Digits /\ t[18] \in Digits
           /\ t[19] = "_"
           /\ t[20] \in Digits /\ t[21] \in Digits
           /\ t[22] = "_"
           /\ t[23] \in Digits /\ t[24] \in Digits
           /\ SubSeq(t, 25, 28) = <<".", "m", "p", "3">>

\* The value parse_date_key returns for "no match".
NoDate == <<0, 0, 0>>

YearPivot == 70

parse_date_key(name) ==
    LET s == Strip(name, Whitespace)
    IN  IF ~DateMatch(s) THEN NoDate
        ELSE LET b  == Len(s) - DateLen
                 d  == Int2(s, b + 17)
                 mo == Int2(s, b + 20)
                 yy == Int2(s, b + 23)
                 year == IF yy < YearPivot THEN 2000 + yy ELSE 1900 + yy
             IN  <<year, mo, d>>

\* file_sort_key as the uniform tuple <<tier, date, lowered name>>; the code's
\* (1, name) and (0, dk, name) compare the same way, tier first.
file_sort_key(item) ==
    LET name == Strip(item.name, Whitespace)
        dk   == parse_date_key(name)
    IN  IF dk = NoDate
        THEN [tier |-> 1, dk |-> NoDate, lname |-> Lower(name)]
        ELSE [tier |-> 0, dk |-> dk, lname |-> Lower(name)]

folder_sort_key(item) == Lower(item.name)

\* Python's < on the (year, month, day) tuples
DateLess(a, b) ==
    \/ a[1] < b[1]
    \/ a[1] = b[1] /\ a[2] < b[2]
    \/ a[1] = b[1] /\ a[2] = b[2] /\ a[3] < b[3]

\* Python's < on two file sort keys
FileKeyLess(a, b) ==
    \/ a.tier < b.tier
    \/ a.tier = b.tier /\ DateLess(a.dk, b.dk)
    \/ a.tier = b.tier /\ a.dk = b.dk /\ StrLess(a.lname, b.lname)

FileLess(x, y) == FileKeyLess(file_sort_key(x), file_sort_key(y))

FolderLess(x, y) == StrLess(folder_sort_key(x), folder_sort_key(y))

\* The comparison sorted() makes for key=file_sort_key or key=folder_sort_key.
KeyLess(key, x, y) ==
    IF key = "file" THEN FileLess(x, y) ELSE FolderLess(x, y)

\* sorted(): stable, an element goes after every element not greater than it.
RECURSIVE InsertSorted(_, _, _)
InsertSorted(x, s, key) ==
    IF s = <<>> THEN <<x>>
    ELSE IF KeyLess(key, x, s[1]) THEN <<x>> \o s
    ELSE <<s[1]>> \o InsertSorted(x, Tail(s), key)

RECURSIVE SortedBy(_, _)
SortedBy(s, key) ==
    IF s = <<>> THEN <<>>
    ELSE InsertSorted(s[Len(s)], SortedBy(SubSeq(s, 1, Len(s) - 1), key), key)

SortFiles(s) == SortedBy(s, "file")

SortFolders(s) == SortedBy(s, "folder")

\* [it for it in items if it.get("type") == t]
RECURSIVE OfType(_, _)
OfType(items, t) ==
    IF items = <<>> THEN <<>>
    ELSE IF items[1].type = t THEN <<items[1]>> \o OfType(Tail(items), t)
    ELSE OfType(Tail(items), t)

(***************************************************************************)
(* The remote share (the service behind list_dir, lines 80-84)             *)
(***************************************************************************)

\* Page size of the listing requests: 200 in the source (line 21), scaled down
\* so that a directory of the model spans several pages.
PAGE_SIZE == 2

R   == <<"r">>
S   == <<"s">>
RA  == <<"r", "/", "a">>
RAE == <<"r", "/", "a", "/", "E">>

\* DEFAULT_SHARE (line 12), the share the text input starts with.
DEFAULT_SHARE == R

ModernName(sep, d, m, y) ==
    <<"M", "o", "d", "e", "r", "n", sep, "S", "a", "b", "a", "h", "l", "a", "r", sep>>
        \o d \o <<"_">> \o m \o <<"_">> \o y \o <<".", "m", "p", "3">>

F_01_02_23 == ModernName("_", <<"0", "1">>, <<"0", "2">>, <<"2", "3">>)
F_15_01_23 == ModernName("_", <<"1", "5">>, <<"0", "1">>, <<"2", "3">>)
F_31_12_69 == ModernName(" ", <<"3", "1">>, <<"1", "2">>, <<"6", "9">>)
F_01_01_70 ==
    <<"M", "O", "D", "E", "R", "N", "_", "S", "A", "B", "A", "H", "L", "A", "R", "_",
      "0", "1", "_", "0", "1", "_", "7", "0", ".", "M", "P", "3">>
F_random == <<"r", "a", "n", "d", "o", "m", ".", "m", "p", "3">>
F_Zed    == <<"Z", "e", "d", ".", "m", "p", "3">>

FileItem(parent, name) ==
    [type |-> "file", name |-> name, weblink |-> parent \o <<"/">> \o name]

FolderItem(name, weblink) ==
    [type |-> "folder", name |-> name, weblink |-> weblink]

\* The directories of the remote share, each with its entries in the order the
\* service lists them. Folder "B" carries no weblink; folder "E" carries its
\* parent's weblink only.
Dirs == {R, RA, RAE, S}

Listing(path) ==
    CASE path = R ->
           << FileItem(R, F_01_02_23),
              FolderItem(<<"a">>, RA),
              FileItem(R, F_15_01_23),
              FolderItem(<<"B">>, EmptyStr),
              FileItem(R, F_random) >>
      [] path = RA ->
           << FileItem(RA, F_random),
              FileItem(RA, F_Zed),
              FolderItem(<<"E">>, RA \o <<"/">>) >>
      [] path = RAE -> <<>>
      [] path = S ->
           << FileItem(S, F_31_12_69),
              FileItem(S, F_01_01_70) >>

Min(a, b) == IF a < b THEN a ELSE b

\* The body of a successful list_dir(share, offset, limit) response: the page
\* and the directory's totals. A path outside Dirs has no successful response.
list_dir(share, off, limit) ==
    LET all == Listing(Strip(share, Slash))
    IN  [list  |-> SubSeq(all, off + 1, Min(off + limit, Len(all))),
         count |-> [folders |-> Len(OfType(all, "folder")),
                    files   |-> Len(OfType(all, "file"))]]

get_counts(body) == <<body.count.folders, body.count.files>>

\* Mutant of normalize_child_weblink: the result is stripped on the right only.
NormalizeRStripOnly(parent, item) ==
    LET w    == item.weblink
        name == item.name
    IN  IF w = EmptyStr THEN EmptyStr
        ELSE IF name # EmptyStr /\ ~EndsWith(w, <<"/">> \o name)
             THEN RStrip(RStrip(w, Slash) \o <<"/">> \o name, Slash)
             ELSE RStrip(w, Slash)

\* normalize_child_weblink (lines 86-93)
normalize_child_weblink(parent, item) ==
    LET w    == item.weblink
        name == item.name
    IN  IF w = EmptyStr THEN EmptyStr
        ELSE IF name # EmptyStr /\ ~EndsWith(w, <<"/">> \o name)
             THEN Strip(RStrip(w, Slash) \o <<"/">> \o name, Slash)
             ELSE Strip(w, Slash)

(***************************************************************************)
(* The progress store (lines 26-46, 130-147)                               *)
(***************************************************************************)

\* Keys of the progress record.
K_last_folder == <<"last_folder">>
K_last_file   == <<"last_file">>
K_per_folder  == <<"per_folder">>

\* The dict {}
EmptyDict == [k \in {} |-> None]

\* d.get(k)
DictGet(d, k) == IF k \in DOMAIN d THEN d[k] ELSE None

\* d[k] = v
DictSet(d, k, v) == [x \in (DOMAIN d) \cup {k} |-> IF x = k THEN v ELSE d[x]]

\* A JSON document is a sequence of tokens; the first element of a token is its
\* tag. Escaping and white space inside a token are not modelled.
LBrace == <<"{">>
RBrace == <<"}">>
KeyTok(k) == <<"k">> \o k
StrTok(v) == <<"s">> \o v

\* PROGRESS_PATH does not exist.
Missing == << <<"Missing">> >>

\* The least string of a non-empty set of strings.
MinStr(ks) == CHOOSE k \in ks : \A o \in ks : o = k \/ StrLess(k, o)

\* json.dump of a dict of strings, its members in ascending key order (the code
\* writes them in insertion order; equality of dicts does not depend on it).
RECURSIVE DumpMembers(_, _)
DumpMembers(d, ks) ==
    IF ks = {} THEN <<>>
    ELSE LET k == MinStr(ks)
         IN  <<KeyTok(k), StrTok(d[k])>> \o DumpMembers(d, ks \ {k})

\* Mutant of json_dump: the members of per_folder are not written.
JsonDumpFlat(d) ==
    <<LBrace>>
    \o (IF K_last_folder \in DOMAIN d
        THEN <<KeyTok(K_last_folder), StrTok(d[K_last_folder])>> ELSE <<>>)
    \o (IF K_last_file \in DOMAIN d
        THEN <<KeyTok(K_last_file), StrTok(d[K_last_file])>> ELSE <<>>)
    \o (IF K_per_folder \in DOMAIN d
        THEN <<KeyTok(K_per_folder), LBrace, RBrace>> ELSE <<>>)
    \o <<RBrace>>

\* json.dump(d, f, ensure_ascii=False, indent=2) of a progress record.
json_dump(d) ==
    <<LBrace>>
    \o (IF K_last_folder \in DOMAIN d
        THEN <<KeyTok(K_last_folder), StrTok(d[K_last_folder])>> ELSE <<>>)
    \o (IF K_last_file \in DOMAIN d
        THEN <<KeyTok(K_last_file), StrTok(d[K_last_file])>> ELSE <<>>)
    \o (IF K_per_folder \in DOMAIN d
        THEN <<KeyTok(K_per_folder), LBrace>>
             \o DumpMembers(d[K_per_folder], DOMAIN d[K_per_folder])
             \o <<RBrace>>
        ELSE <<>>)
    \o <<RBrace>>

ParseFail == [ok |-> FALSE, val |-> None, rest |-> <<>>]

\* The JSON parser: a value is a string or an object; an object is "{", then
\* key and value pairs, then "}".
RECURSIVE ParseValue(_)
RECURSIVE ParseMembers(_, _)
ParseValue(ts) ==
    IF ts = <<>> THEN ParseFail
    ELSE IF ts[1][1] = "s" THEN [ok |-> TRUE, val |-> Tail(ts[1]), rest |-> Tail(ts)]
    ELSE IF ts[1] = LBrace THEN ParseMembers(Tail(ts), EmptyDict)
    ELSE ParseFail

ParseMembers(ts, acc) ==
    IF ts = <<>> THEN ParseFail
    ELSE IF ts[1] = RBrace THEN [ok |-> TRUE, val |-> acc, rest |-> Tail(ts)]
    ELSE IF ts[1][1] = "k"
         THEN LET v == ParseValue(Tail(ts))
              IN  IF v.ok THEN ParseMembers(v.rest, DictSet(acc, Tail(ts[1]), v.val))
                  ELSE ParseFail
    ELSE ParseFail

\* json.load(f): the parsed document, or ParseFail when json.load raises.
json_load(content) ==
    LET r == ParseValue(content)
    IN  IF r.ok /\ r.rest = <<>> THEN r ELSE ParseFail

\* Mutant of read_progress: only the missing file is caught; the decode error
\* leaves the function, shown as a record that carries the exception.
ReadProgressUncaught(file) ==
    IF file = Missing THEN EmptyDict
    ELSE LET r == json_load(file)
         IN  IF r.ok THEN r.val
             ELSE DictSet(EmptyDict, <<"raised">>, <<"JSONDecodeError">>)

\* read_progress (lines 26-31) on the content of PROGRESS_PATH
read_progress(file) ==
    IF file = Missing THEN EmptyDict
    ELSE LET r == json_load(file)
         IN  IF r.ok THEN r.val ELSE EmptyDict

\* p.get("per_folder", {}) or {}
PerFolderOf(p) == IF K_per_folder \in DOMAIN p THEN p[K_per_folder] ELSE EmptyDict

\* The dict update_progress hands to write_progress (lines 131-136).
UpdatedProgress(file, folder, filename) ==
    LET p  == read_progress(file)
        p1 == DictSet(p, K_last_folder, folder)
        p2 == DictSet(p1, K_last_file, filename)
        pf == DictSet(PerFolderOf(p2), folder, filename)
    IN  DictSet(p2, K_per_folder, pf)

\* x in names
InList(x, names) == \E i \in 1..Len(names) : names[i] = x

\* names.index(x)
IndexOf(x, names) == CHOOSE i \in 1..Len(names) :
    names[i] = x /\ \A j \in 1..(i - 1) : names[j] # x

\* Mutant of pick_last_for_folder: the remembered file is returned unchecked.
PickLastUnchecked(file, folder, names) ==
    LET p    == read_progress(file)
        cand == DictGet(PerFolderOf(p), folder)
    IN  IF cand # None THEN cand
        ELSE IF DictGet(p, K_last_folder) = folder /\ InList(DictGet(p, K_last_file), names)
             THEN DictGet(p, K_last_file)
        ELSE None

\* pick_last_for_folder (lines 139-147) on the content of PROGRESS_PATH
pick_last_for_folder(file, folder, names) ==
    LET p    == read_progress(file)
        pf   == PerFolderOf(p)
        cand == DictGet(pf, folder)
    IN  IF InList(cand, names) THEN cand
        ELSE IF DictGet(p, K_last_folder) = folder /\ InList(DictGet(p, K_last_file), names)
             THEN DictGet(p, K_last_file)
        ELSE None


(***************************************************************************)
(* The browsing session (lines 149-331)                                    *)
(***************************************************************************)

\* Texts the user types into "Public share path"; the code strips them.
ShareTexts == {EmptyStr, R, <<"/", "r", "/">>, S}

\* Texts the user types into the search box.
FilterTexts == {EmptyStr, <<"R", "a", "n">>}

\* st.sidebar.text_input(...).strip().strip("/")  (line 152)
ShareOf(text) == Strip(Strip(text, Whitespace), Slash)

\* Mutant of FilterOf: the filter text keeps its case.
FilterKeepsCase(text) == Strip(text, Whitespace)

\* st.text_input(...).strip().lower()  (line 282)
FilterOf(text) == Lower(Strip(text, Whitespace))

\* The session state as one value.
Session ==
    [last_share |-> last_share, nav |-> nav, offset |-> offset,
     loaded_files |-> loaded_files, loaded_folders |-> loaded_folders,
     selected_name |-> selected_name]

SetSession(s) ==
    /\ last_share' = s.last_share
    /\ nav' = s.nav
    /\ offset' = s.offset
    /\ loaded_files' = s.loaded_files
    /\ loaded_folders' = s.loaded_folders
    /\ selected_name' = s.selected_name

\* A session with no key set.
NoSession ==
    [last_share |-> None, nav |-> <<>>, offset |-> 0,
     loaded_files |-> <<>>, loaded_folders |-> <<>>, selected_name |-> None]

\* offset = 0, loaded_files = [], loaded_folders = [], selected_name = None
ClearLoaded(s) ==
    [s EXCEPT !.offset = 0, !.loaded_files = <<>>, !.loaded_folders = <<>>,
              !.selected_name = None]

\* Lines 157-178. The keys last_share, nav, offset, loaded_files and
\* loaded_folders are created by the same run, so "nav not in session_state"
\* is last_share = None.
ShareStep(s, share) ==
    IF s.last_share = None
    THEN [NoSession EXCEPT !.last_share = share, !.nav = <<share>>,
                           !.selected_name = s.selected_name]
    ELSE IF share # s.last_share
         THEN ClearLoaded([s EXCEPT !.last_share = share, !.nav = <<share>>])
         ELSE s

\* "Reset to root" (lines 183-189)
ResetNav(s, share) == ClearLoaded([s EXCEPT !.nav = <<share>>])

\* Mutant of PopNav: nav.pop(0) in place of nav.pop().
PopNavFront(s) == ClearLoaded([s EXCEPT !.nav = Tail(@)])

\* "Up one level" (lines 192-198)
PopNav(s) == ClearLoaded([s EXCEPT !.nav = SubSeq(@, 1, Len(@) - 1)])

\* Mutant of PushNav: the reset of loaded_files is left out.
PushNavKeepsFiles(s, child) ==
    [s EXCEPT !.nav = Append(@, child), !.offset = 0, !.loaded_folders = <<>>,
              !.selected_name = None]

\* "Open folder" (lines 274-278)
PushNav(s, child) == ClearLoaded([s EXCEPT !.nav = Append(@, child)])

\* current = st.session_state.nav[-1]  (line 180)
Current(s) == s.nav[Len(s.nav)]

\* The effect of load_first_page_if_needed on a successful response (233-240).
FirstPage(s) ==
    LET items == list_dir(Current(s), 0, PAGE_SIZE).list
    IN  [s EXCEPT !.loaded_folders = SortFolders(OfType(items, "folder")),
                  !.loaded_files   = SortFiles(OfType(items, "file")),
                  !.offset         = Len(items)]

\* Lines 248 and 249: the accumulated list with a new page merged in.
MergeFolders(loaded, page) == SortFolders(loaded \o page)

\* Mutant of MergeFiles: only the new page is sorted.
MergeFilesAppend(loaded, page) == loaded \o SortFiles(page)

MergeFiles(loaded, page) == SortFiles(loaded \o page)

\* Mutant of AdvanceOffset: the offset advances by the page size requested.
AdvanceOffsetByLimit(off, items) == off + PAGE_SIZE

\* st.session_state.offset += len(items)  (line 250)
AdvanceOffset(off, items) == off + Len(items)

\* The effect of load_more on a successful response (243-250).
LoadMorePage(s) ==
    LET items == list_dir(Current(s), s.offset, PAGE_SIZE).list
    IN  [s EXCEPT !.loaded_folders = MergeFolders(@, OfType(items, "folder")),
                  !.loaded_files   = MergeFiles(@, OfType(items, "file")),
                  !.offset         = AdvanceOffset(@, items)]

\* Mutant of FirstPageNeeded: the early return of lines 231, 232 is missing.
FirstPageAlways(s) == s.offset >= 0

\* The guard of load_first_page_if_needed (line 231).
FirstPageNeeded(s) ==
    ~(s.offset > 0 \/ s.loaded_files # <<>> \/ s.loaded_folders # <<>>)

\* [f.get("name") for f in items]
NamesOf(items) == [i \in 1..Len(items) |-> items[i].name]

\* Lines 284-288: the loaded files whose name contains q.
RECURSIVE Filtered(_, _)
Filtered(files, q) ==
    IF files = <<>> THEN <<>>
    ELSE IF q = EmptyStr \/ Contains(Lower(files[1].name), q)
         THEN <<files[1]>> \o Filtered(Tail(files), q)
         ELSE Filtered(Tail(files), q)

\* n_folders_total, n_files_total of the count query (lines 255, 256).
Totals(path) == get_counts(list_dir(path, 0, 1))

\* more_possible (line 292)
MorePossible(s) == Len(s.loaded_files) < Totals(Current(s))[2]

\* The "Open folder" selectbox is rendered (lines 265-269).
FolderBoxShown(s) == ~(s.loaded_folders = <<>> /\ Totals(Current(s))[1] = 0)

\* default_index (lines 307-312), as the name it selects.
DefaultName(file, s, names) ==
    LET preferred == pick_last_for_folder(file, Current(s), names)
    IN  IF preferred # None THEN names[IndexOf(preferred, names)]
        ELSE IF InList(s.selected_name, names)
             THEN names[IndexOf(s.selected_name, names)]
        ELSE names[1]

\* write_progress on a run that is not interrupted: the content PROGRESS_PATH
\* has afterwards.
write_progress(d) == json_dump(d)

\* update_progress (lines 130-137), as the new content of PROGRESS_PATH.
update_progress(file, folder, filename) ==
    write_progress(UpdatedProgress(file, folder, filename))

\* The text the share input holds when a run starts without a share event.
CurShareText ==
    IF shown = "share" THEN EmptyStr
    ELSE IF last_share = None THEN DEFAULT_SHARE
    ELSE last_share

\* The widgets the last finished run rendered, by the point where it ended.
Buttons  == {"error", "list", "player"}
ListPart == {"list", "player"}

\* The events a user can raise on the page as it is rendered, and the run that
\* st.rerun() or the first page load starts ("rerun").
EventEnabled(e, a) ==
    CASE e = "rerun"  -> (rerun \/ shown = "none") /\ a = None
      [] e = "share"  -> ~rerun /\ shown # "none" /\ a \in ShareTexts
      [] e = "open"   -> /\ ~rerun /\ shown \in ListPart
                         /\ FolderBoxShown(Session)
                         /\ InList(a, NamesOf(loaded_folders))
      [] e = "filter" -> /\ ~rerun /\ shown \in ListPart
                         /\ a \in FilterTexts /\ FilterOf(a) # q_text
      [] e = "more"   -> /\ ~rerun /\ shown \in ListPart
                         /\ MorePossible(Session) /\ a = None
      [] e = "pick"   -> /\ ~rerun /\ shown = "player"
                         /\ InList(a, NamesOf(Filtered(loaded_files, q_text)))
      [] e = "next"   -> ~rerun /\ shown = "player" /\ a = None
      [] OTHER -> FALSE

BodyEvents == {"rerun", "share", "open", "filter", "more", "pick", "next"}

\* Every value an event can carry.
EventArgs ==
    {None} \cup ShareTexts \cup FilterTexts
    \cup UNION {{Listing(d)[i].name : i \in 1..Len(Listing(d))} : d \in Dirs}

otherVars == <<storeVars, tokenVars, pureVars>>

\* The share the run reads (line 152).
RunShare(e, a) == IF e = "share" THEN ShareOf(a) ELSE ShareOf(CurShareText)

\* Line 154: the run stops on an empty share.
TopStop ==
    /\ pc = "idle"
    /\ \E a \in ShareTexts :
         /\ EventEnabled("share", a)
         /\ ShareOf(a) = EmptyStr
         /\ ev' = "share" /\ arg' = a
    /\ shown' = "share" /\ rerun' = FALSE
    /\ UNCHANGED <<navVars, q_text, pc, progress_file, otherVars>>

\* A button of lines 183-220 is pressed: the run changes the session and
\* calls st.rerun().
ButtonPressed(name) ==
    /\ pc = "idle" /\ ~rerun /\ shown \in Buttons
    /\ ShareOf(CurShareText) # EmptyStr
    /\ ev' = name /\ arg' = None
    /\ rerun' = TRUE
    /\ UNCHANGED <<q_text, pc, shown, progress_file, otherVars>>

ResetToRoot ==
    /\ ButtonPressed("reset")
    /\ LET share == ShareOf(CurShareText)
       IN  SetSession(ResetNav(ShareStep(Session, share), share))

UpOneLevel ==
    /\ ButtonPressed("up")
    /\ LET s == ShareStep(Session, ShareOf(CurShareText))
       IN  /\ Len(s.nav) > 1
           /\ SetSession(PopNav(s))

\* "Refresh now" (lines 209-215); st.cache_data.clear() acts on the memoized
\* token and base URL, which are not part of this specification.
RefreshNow ==
    /\ ButtonPressed("refresh_now")
    /\ SetSession(ClearLoaded(ShareStep(Session, ShareOf(CurShareText))))

\* "Refresh token" (lines 217-220) leaves the browsing state as it is.
RefreshTokenPressed ==
    /\ ButtonPressed("refresh_token")
    /\ SetSession(ShareStep(Session, ShareOf(CurShareText)))

\* Any other run passes lines 149-220 and goes on to line 222.
TopContinue ==
    /\ pc = "idle"
    /\ \E e \in BodyEvents, a \in EventArgs :
         /\ EventEnabled(e, a)
         /\ RunShare(e, a) # EmptyStr
         /\ ev' = e /\ arg' = a
         /\ SetSession(ShareStep(Session, RunShare(e, a)))
    /\ pc' = "fetch" /\ rerun' = FALSE
    /\ UNCHANGED <<q_text, shown, progress_file, otherVars>>

\* The run ends showing an error (lines 224-226, 257-259, or an exception of
\* get_download_token at line 228).
StopWithError ==
    /\ pc' = "idle" /\ shown' = "error"
    /\ UNCHANGED <<navVars, q_text, ev, arg, rerun, progress_file, otherVars>>

\* get_base_url or get_download_token fails (lines 222-228).
InitFail ==
    /\ pc = "fetch"
    /\ StopWithError

\* load_first_page_if_needed returns at line 232.
FirstPageSkip ==
    /\ pc = "fetch"
    /\ ~FirstPageNeeded(Session)
    /\ pc' = "count"
    /\ UNCHANGED <<navVars, q_text, ev, arg, rerun, shown, progress_file, otherVars>>

\* load_first_page_if_needed fetches the first page.
FirstPageLoad ==
    /\ pc = "fetch"
    /\ FirstPageNeeded(Session)
    /\ SetSession(FirstPage(Session))
    /\ pc' = "count"
    /\ UNCHANGED <<q_text, ev, arg, rerun, shown, progress_file, otherVars>>

\* The listing request of load_first_page_if_needed fails.
FirstPageFail ==
    /\ pc = "fetch"
    /\ FirstPageNeeded(Session)
    /\ StopWithError

\* The count query of line 255 fails.
CountFail ==
    /\ pc = "count"
    /\ StopWithError

\* Mutant of OpensFolder: the test "if child:" of line 273 is missing.
OpensFolderUnchecked ==
    /\ ev = "open"
    /\ FolderBoxShown(Session)
    /\ InList(arg, NamesOf(loaded_folders))

\* Lines 270-279: the chosen folder has a path and is opened.
OpensFolder ==
    /\ ev = "open"
    /\ FolderBoxShown(Session)
    /\ InList(arg, NamesOf(loaded_folders))
    /\ normalize_child_weblink(Current(Session),
           loaded_folders[IndexOf(arg, NamesOf(loaded_folders))]) # EmptyStr

OpenFolder ==
    /\ pc = "count"
    /\ OpensFolder
    /\ LET idx   == IndexOf(arg, NamesOf(loaded_folders))
           child == normalize_child_weblink(Current(Session), loaded_folders[idx])
       IN  SetSession(PushNav(Session, child))
    /\ pc' = "idle" /\ rerun' = TRUE
    /\ UNCHANGED <<q_text, ev, arg, shown, progress_file, otherVars>>

\* q of line 282: the filter this run applies.
RunFilter == IF ev = "filter" THEN FilterOf(arg) ELSE q_text

\* Lines 292-299: "Load more files" was pressed.
LoadsMore == ~OpensFolder /\ MorePossible(Session) /\ ev = "more"

LoadMore ==
    /\ pc = "count"
    /\ LoadsMore
    /\ SetSession(LoadMorePage(Session))
    /\ pc' = "idle" /\ rerun' = TRUE
    /\ UNCHANGED <<q_text, ev, arg, shown, progress_file, otherVars>>

\* The listing request of load_more fails: the error is shown, then st.rerun().
LoadMoreFail ==
    /\ pc = "count"
    /\ LoadsMore
    /\ pc' = "idle" /\ rerun' = TRUE
    /\ UNCHANGED <<navVars, q_text, ev, arg, shown, progress_file, otherVars>>

\* Lines 301-303: nothing to select.
NoMatch ==
    /\ pc = "count"
    /\ ~OpensFolder /\ ~LoadsMore
    /\ Filtered(loaded_files, RunFilter) = <<>>
    /\ q_text' = RunFilter
    /\ pc' = "idle" /\ shown' = "list"
    /\ UNCHANGED <<navVars, ev, arg, rerun, progress_file, otherVars>>

ToSelect ==
    /\ pc = "count"
    /\ ~OpensFolder /\ ~LoadsMore
    /\ Filtered(loaded_files, RunFilter) # <<>>
    /\ q_text' = RunFilter
    /\ pc' = "select"
    /\ UNCHANGED <<navVars, ev, arg, rerun, shown, progress_file, otherVars>>

\* names (line 305)
RunNames == NamesOf(Filtered(loaded_files, q_text))

\* selected_name (line 314): the user's choice in the run that the choice
\* triggers, the default otherwise.
RunSelected ==
    IF ev = "pick" /\ InList(arg, RunNames) THEN arg
    ELSE DefaultName(progress_file, Session, RunNames)

\* Lines 305-322, and the end of the script when "Next" was not pressed.
SelectEpisode ==
    /\ pc = "select"
    /\ ev # "next"
    /\ selected_name' = RunSelected
    /\ progress_file' = update_progress(progress_file, Current(Session), RunSelected)
    /\ pc' = "idle" /\ shown' = "player"
    /\ UNCHANGED <<last_share, nav, offset, loaded_files, loaded_folders,
                   q_text, ev, arg, rerun, otherVars>>

\* nxt (line 329), as the name st.session_state.selected_name is set to.
NextName(names, selected) == names[Min(IndexOf(selected, names) + 1, Len(names))]

\* Lines 305-322, then "Next" (lines 328-331).
NextEpisode ==
    /\ pc = "select"
    /\ ev = "next"
    /\ selected_name' = NextName(RunNames, RunSelected)
    /\ progress_file' = update_progress(progress_file, Current(Session), RunSelected)
    /\ pc' = "idle" /\ rerun' = TRUE
    /\ UNCHANGED <<last_share, nav, offset, loaded_files, loaded_folders,
                   q_text, ev, arg, shown, otherVars>>

\* The browser opens the page anew: a session with an empty session_state.
\* PROGRESS_PATH stays as it is.
NewSession ==
    /\ pc = "idle"
    /\ shown # "none"
    /\ SetSession(NoSession)
    /\ q_text' = EmptyStr /\ ev' = "rerun" /\ arg' = None
    /\ rerun' = FALSE /\ shown' = "none"
    /\ UNCHANGED <<pc, progress_file, otherVars>>

Writers == {"w1", "w2"}

StoreInit ==
    /\ tmp_file = [w \in Writers |-> Missing]
    /\ leftover = 0
    /\ wpc = [w \in Writers |-> "idle"]
    /\ wd = [w \in Writers |-> EmptyDict]

TokenInit ==
    /\ now_ts = 0 /\ token = 0 /\ token_ts = -1
    /\ memo_token = 0 /\ issued = 0 /\ tpc = "idle" /\ got = "none"

\* No call made yet: the result is not there.
NoResult == [done |-> FALSE, val |-> None]

PureInit == call = None /\ result = NoResult

SessionInit ==
    /\ last_share = None /\ nav = <<>> /\ offset = 0
    /\ loaded_files = <<>> /\ loaded_folders = <<>> /\ selected_name = None
    /\ q_text = EmptyStr /\ pc = "idle" /\ ev = "rerun" /\ arg = None
    /\ rerun = FALSE /\ shown = "none"

Init ==
    /\ SessionInit
    /\ progress_file = Missing
    /\ StoreInit /\ TokenInit /\ PureInit

Next ==
    \/ TopStop \/ ResetToRoot \/ UpOneLevel \/ RefreshNow \/ RefreshTokenPressed
    \/ TopContinue
    \/ InitFail \/ FirstPageSkip \/ FirstPageLoad \/ FirstPageFail
    \/ CountFail \/ OpenFolder \/ LoadMore \/ LoadMoreFail \/ NoMatch \/ ToSelect
    \/ SelectEpisode \/ NextEpisode
    \/ NewSession

Spec == Init /\ [][Next]_vars


(***************************************************************************)
(* Properties of the browsing session                                      *)
(***************************************************************************)

\* C1: once the session state exists, the navigation stack is never empty and
\* its first element is the current root share, whatever was opened, popped,
\* reset, refreshed or re-rooted before.
C1_NavRooted ==
    last_share # None => (Len(nav) >= 1 /\ nav[1] = last_share)

\* "Up one level" has popped the stack down to the root.
C1_Witness ==
    ev = "up" /\ rerun /\ Len(nav) = 1 /\ nav[1] = last_share

AllCleared(s) ==
    s.offset = 0 /\ s.loaded_files = <<>> /\ s.loaded_folders = <<>>
    /\ s.selected_name = None

\* What is accumulated and selected belongs to the directory on top of the stack.
LoadedFromTop ==
    IF nav = <<>> THEN AllCleared(Session)
    ELSE LET here == Listing(Current(Session))
         IN  /\ \A i \in 1..Len(loaded_files) : InList(loaded_files[i], here)
             /\ \A i \in 1..Len(loaded_folders) : InList(loaded_folders[i], here)
             /\ offset <= Len(here)
             /\ selected_name # None
                  => InList(selected_name, NamesOf(OfType(here, "file")))

\* C2: every step that pushes, pops, resets or re-roots the stack leaves
\* offset = 0, both accumulated lists empty and no selection; and in every
\* state what is accumulated was listed in the directory on top of the stack.
C2_NavMutationClears ==
    /\ []LoadedFromTop
    /\ [][(\/ OpenFolder \/ UpOneLevel \/ ResetToRoot
           \/ nav' # nav \/ last_share' # last_share)
          => (offset' = 0 /\ loaded_files' = <<>> /\ loaded_folders' = <<>>
              /\ selected_name' = None)]_vars

\* A folder has just been opened from a directory with loaded entries.
C2_Witness ==
    ev = "open" /\ rerun /\ Len(nav) = 2 /\ AllCleared(Session)

\* The file the progress store remembers for the current directory.
Remembered ==
    DictGet(PerFolderOf(read_progress(progress_file)), Current(Session))

\* C3: when a run selects the episode by default (no choice made in that run,
\* no filter set) in a directory whose remembered file still exists there,
\* the episode selected is the remembered file, and it stays the remembered one.
C3_ResumePerFolder ==
    [][(/\ SelectEpisode
        /\ ev # "pick"
        /\ q_text = EmptyStr
        /\ InList(Remembered, NamesOf(OfType(Listing(Current(Session)), "file"))))
       => (/\ selected_name' = Remembered
           /\ DictGet(PerFolderOf(read_progress(progress_file')), Current(Session))
                = Remembered)]_vars

\* C9: the offset is the number of entries fetched for the current directory
\* since the last reset (every listed entry is a file or a folder, so these
\* are the accumulated ones), each load advances it by the length of the page
\* just fetched, and it does not exceed the total the service reports.
C9_OffsetAccounting ==
    /\ [](nav # <<>> =>
            /\ offset = Len(loaded_files) + Len(loaded_folders)
            /\ offset <= Totals(Current(Session))[1] + Totals(Current(Session))[2])
    /\ [][(FirstPageLoad \/ LoadMore)
          => offset' = offset + Len(list_dir(Current(Session), offset, PAGE_SIZE).list)]_vars

\* The whole root directory has been loaded, its last page a short one.
C9_Witness ==
    /\ ev = "more" /\ nav = <<R>>
    /\ offset = Len(Listing(R)) /\ offset > PAGE_SIZE

\* The chronological rank of a name that matches the date pattern.
ChronOf(name) ==
    LET s  == Strip(name, Whitespace)
        b  == Len(s) - DateLen
        yy == Int2(s, b + 23)
    IN  (IF yy < 70 THEN 2000 + yy ELSE 1900 + yy) * 10000
        + Int2(s, b + 20) * 100 + Int2(s, b + 17)

IsDated(name) == DateMatch(Strip(name, Whitespace))

NameLeq(a, b) == ~StrLess(Lower(Strip(b, Whitespace)), Lower(Strip(a, Whitespace)))

\* a may stand before b in the file list
MayPrecede(a, b) ==
    IF IsDated(a) /\ IsDated(b)
    THEN ChronOf(a) < ChronOf(b) \/ (ChronOf(a) = ChronOf(b) /\ NameLeq(a, b))
    ELSE IF IsDated(a) THEN TRUE
    ELSE IF IsDated(b) THEN FALSE
    ELSE NameLeq(a, b)

\* C10: in every state the whole accumulated file list has the dated files
\* first, in ascending date order, then the others in case-insensitive name
\* order, and the whole accumulated folder list is in case-insensitive name order.
C10_AccumulatedOrdered ==
    /\ \A i, j \in 1..Len(loaded_files) :
         i < j => MayPrecede(loaded_files[i].name, loaded_files[j].name)
    /\ \A i, j \in 1..Len(loaded_folders) :
         i < j => ~StrLess(Lower(loaded_folders[j].name), Lower(loaded_folders[i].name))

\* After "Load more" a file of the second page stands before one of the first,
\* and a folder of the first page before one of the second.
C10_Witness ==
    /\ ev = "more" /\ nav = <<R>>
    /\ Len(loaded_files) >= 2 /\ loaded_files[1].name = F_15_01_23
    /\ loaded_files[2].name = F_01_02_23
    /\ NamesOf(loaded_folders) = << <<"a">>, <<"B">> >>


(***************************************************************************)
(* The token manager (lines 48-64, 149, 209-220)                           *)
(***************************************************************************)

\* Mutant of TOKEN_MAX_AGE: the threshold counted in minutes.
TokenMaxAgeMinutes == (60 * 4) \div 60

\* The refresh threshold of line 61, compared with an age in ticks.
TOKEN_MAX_AGE == 60 * 4

\* Ticks and tokens a behaviour of SpecToken may use.
MaxTick == 243
MaxIssued == 2

\* get_download_token_cached (lines 48-53) when the request succeeds: the
\* memoized token if st.cache_data holds one, else a token the service issues
\* now. Tokens are numbered in the order the service issues them.
get_download_token_cached(memo, iss) ==
    IF memo # 0 THEN [tok |-> memo, memo |-> memo, issued |-> iss]
    ELSE [tok |-> iss + 1, memo |-> iss + 1, issued |-> iss + 1]

\* get_download_token (lines 55-64) at tick now, every request succeeding.
get_download_token(now, tk, ts, memo, iss) ==
    IF tk = 0 \/ ts = -1
    THEN LET f == get_download_token_cached(memo, iss)
         IN  [token |-> f.tok, token_ts |-> now, memo |-> f.memo,
              issued |-> f.issued, got |-> "first"]
    ELSE IF now - ts > TOKEN_MAX_AGE
         THEN LET f == get_download_token_cached(memo, iss)
              IN  [token |-> f.tok, token_ts |-> now, memo |-> f.memo,
                   issued |-> f.issued, got |-> "aged"]
         ELSE [token |-> tk, token_ts |-> ts, memo |-> memo,
               issued |-> iss, got |-> "kept"]

\* get_download_token would send a token request at tick now.
TokenRequestDue(now) ==
    memo_token = 0 /\ (token = 0 \/ token_ts = -1 \/ now - token_ts > TOKEN_MAX_AGE)

nonTokenVars == <<navVars, pageVars, progress_file, storeVars, pureVars>>

\* st.session_state.now_ts = st.session_state.get("now_ts", 0) + 1  (line 149)
Tick == now_ts < MaxTick /\ now_ts' = now_ts + 1

\* A run that reaches line 228 and gets its token.
TokRun ==
    /\ Tick
    /\ TokenRequestDue(now_ts + 1) => issued < MaxIssued
    /\ LET r == get_download_token(now_ts + 1, token, token_ts, memo_token, issued)
       IN  /\ token' = r.token /\ token_ts' = r.token_ts
           /\ memo_token' = r.memo /\ issued' = r.issued /\ got' = r.got
    /\ tpc' = "idle"
    /\ UNCHANGED nonTokenVars

\* A run that reaches line 228 and whose token request raises: neither
\* assignment of lines 57, 58 or 62, 63 is made.
TokRunFetchFail ==
    /\ Tick
    /\ TokenRequestDue(now_ts + 1)
    /\ tpc' = "idle" /\ got' = "none"
    /\ UNCHANGED <<token, token_ts, memo_token, issued, nonTokenVars>>

\* A run that stops before line 228 (lines 155, 226).
TokRunStopped ==
    /\ Tick
    /\ tpc' = "idle" /\ got' = "none"
    /\ UNCHANGED <<token, token_ts, memo_token, issued, nonTokenVars>>

\* A run in which "Reset to root" or "Up one level" calls st.rerun().
TokRunRerun ==
    /\ tpc = "idle" /\ now_ts >= 1
    /\ Tick
    /\ tpc' = "rerun" /\ got' = "none"
    /\ UNCHANGED <<token, token_ts, memo_token, issued, nonTokenVars>>

\* "Refresh now" (lines 209-215): st.cache_data.clear(), then st.rerun().
RefreshNowButton ==
    /\ tpc = "idle" /\ now_ts >= 1
    /\ Tick
    /\ memo_token' = 0
    /\ tpc' = "rerun" /\ got' = "none"
    /\ UNCHANGED <<token, token_ts, issued, nonTokenVars>>

\* "Refresh token" (lines 217-220): both keys are popped, then st.rerun().
RefreshTokenButton ==
    /\ tpc = "idle" /\ now_ts >= 1
    /\ Tick
    /\ token' = 0 /\ token_ts' = -1
    /\ tpc' = "refreshed" /\ got' = "none"
    /\ UNCHANGED <<memo_token, issued, nonTokenVars>>

\* The ttl of the memoized token (line 48) runs out.
MemoExpire ==
    /\ memo_token # 0
    /\ memo_token' = 0
    /\ UNCHANGED <<now_ts, token, token_ts, issued, tpc, got, nonTokenVars>>

\* Another session calls get_download_token_cached while nothing is memoized.
OtherSessionFetch ==
    /\ memo_token = 0 /\ issued < MaxIssued
    /\ LET f == get_download_token_cached(memo_token, issued)
       IN  memo_token' = f.memo /\ issued' = f.issued
    /\ UNCHANGED <<now_ts, token, token_ts, tpc, got, nonTokenVars>>

\* While st.rerun() is due the next step of the session is that run.
TokenNext ==
    \/ TokRun \/ TokRunFetchFail \/ TokRunStopped
    \/ TokRunRerun \/ RefreshNowButton \/ RefreshTokenButton
    \/ MemoExpire \/ OtherSessionFetch

SpecToken == Init /\ [][TokenNext]_vars

C5_ManualInvalidation ==
    [][/\ RefreshTokenButton => (token' = 0 /\ token_ts' = -1)
       /\ (tpc = "refreshed" /\ TokRun)
            => (token' = issued + 1 /\ issued' = issued + 1)]_vars


(***************************************************************************)
(* The progress store as pure functions                                    *)
(***************************************************************************)

\* The folders and file names the records of SpecFn are made of.
FnFolders == {R, RA}
FnFiles   == {F_random, F_Zed}

\* Every dict of file names over a set of folders.
PerFolderDicts == UNION {[ks -> FnFiles] : ks \in SUBSET FnFolders}

\* Every record PROGRESS_PATH may hold: each of the three keys is there or
\* not (a file an earlier run or version left need not have per_folder).
Absent == {None}

OptSet(d, k, v) == IF v = None THEN d ELSE DictSet(d, k, v)

ProgressRecords ==
    {LET base == OptSet(OptSet(EmptyDict, K_last_folder, lf), K_last_file, lfile)
     IN  IF hasPf THEN DictSet(base, K_per_folder, pf) ELSE base :
        lf \in Absent \cup FnFolders, lfile \in Absent \cup FnFiles,
        pf \in PerFolderDicts, hasPf \in BOOLEAN}

NameLists ==
    {<<>>, <<F_random>>, <<F_Zed>>, <<F_random, F_Zed>>, <<F_Zed, F_random>>}

\* A call of pick_last_for_folder on the stored record p, or a call of
\* write_progress(p) followed by read_progress().
FnCalls ==
    {[op |-> "pick", p |-> p, folder |-> f, names |-> ns] :
        p \in ProgressRecords, f \in FnFolders, ns \in NameLists}
    \cup {[op |-> "roundtrip", p |-> p, folder |-> None, names |-> <<>>] :
        p \in ProgressRecords}

FnInit ==
    /\ SessionInit /\ StoreInit /\ TokenInit
    /\ call \in FnCalls
    /\ result = NoResult
    /\ progress_file = IF call.op = "pick" THEN json_dump(call.p) ELSE Missing

nonFnVars == <<navVars, pageVars, storeVars, tokenVars>>

DoPick ==
    /\ call.op = "pick" /\ ~result.done
    /\ result' = [done |-> TRUE,
                  val |-> pick_last_for_folder(progress_file, call.folder, call.names)]
    /\ UNCHANGED <<call, progress_file, nonFnVars>>

DoRoundTrip ==
    /\ call.op = "roundtrip" /\ ~result.done
    /\ progress_file' = write_progress(call.p)
    /\ result' = [done |-> TRUE, val |-> read_progress(progress_file')]
    /\ UNCHANGED <<call, nonFnVars>>

FnNext == DoPick \/ DoRoundTrip

SpecFn == FnInit /\ [][FnNext]_vars

\* C7: write_progress(r) followed by read_progress() returns a record equal to r.
C7_RoundTrip ==
    (call.op = "roundtrip" /\ result.done) => result.val = call.p

\* A record with two per_folder entries has made the round trip.
C7_Witness ==
    /\ call.op = "roundtrip" /\ result.done
    /\ K_per_folder \in DOMAIN call.p
    /\ DOMAIN call.p[K_per_folder] = FnFolders
    /\ K_last_file \in DOMAIN call.p

\* What C8 says pick_last_for_folder returns on the record p.
PickAsStated(p, folder, names) ==
    IF /\ K_per_folder \in DOMAIN p
       /\ folder \in DOMAIN p[K_per_folder]
       /\ InList(p[K_per_folder][folder], names)
    THEN p[K_per_folder][folder]
    ELSE IF /\ K_last_folder \in DOMAIN p /\ p[K_last_folder] = folder
            /\ K_last_file \in DOMAIN p /\ InList(p[K_last_file], names)
         THEN p[K_last_file]
    ELSE None

\* C8: pick_last_for_folder returns per_folder[folder] if it is in names, else
\* last_file if last_folder = folder and last_file is in names, else none; and
\* what it returns, if not none, is one of names.
C8_PickLast ==
    (call.op = "pick" /\ result.done) =>
        /\ result.val = PickAsStated(call.p, call.folder, call.names)
        /\ result.val # None => InList(result.val, call.names)

\* The folder's remembered file is not among the names, and the globally
\* remembered file of the same folder is returned.
C8_Witness ==
    /\ call.op = "pick" /\ result.done
    /\ K_per_folder \in DOMAIN call.p
    /\ call.folder \in DOMAIN call.p[K_per_folder]
    /\ ~InList(call.p[K_per_folder][call.folder], call.names)
    /\ result.val # None

(***************************************************************************)
(* write_progress step by step (lines 33-46)                               *)
(***************************************************************************)

\* Tokens one write to the temp file carries, and temp files crashes may leave.
ChunkTokens == 4
MaxLeftover == 2

\* The selections the writers of SpecStore record.
StoreFolders == {R, RA}
StoreFile == F_Zed

\* Mutant of CanReplace: os.replace runs before the temp file is complete.
CanReplaceEarly(w) == wpc[w] \in {"dump", "replace"}

\* os.replace (line 40) runs after the with block has written and closed the
\* temp file.
CanReplace(w) == wpc[w] = "replace"

nonStoreVars == <<navVars, pageVars, tokenVars, pureVars>>

\* update_progress up to the call of write_progress (lines 131-137), and
\* lines 34, 35.
UpdBegin(w) ==
    /\ wpc[w] = "idle"
    /\ \E folder \in StoreFolders :
         wd' = [wd EXCEPT ![w] = UpdatedProgress(progress_file, folder, StoreFile)]
    /\ wpc' = [wpc EXCEPT ![w] = "mkstemp"]
    /\ UNCHANGED <<progress_file, tmp_file, leftover, nonStoreVars>>

\* tempfile.mkstemp (line 36): a new, empty file of its own name.
Mkstemp(w) ==
    /\ wpc[w] = "mkstemp"
    /\ tmp_file' = [tmp_file EXCEPT ![w] = <<>>]
    /\ wpc' = [wpc EXCEPT ![w] = "dump"]
    /\ UNCHANGED <<progress_file, leftover, wd, nonStoreVars>>

\* Mutant of DumpChunk: json.dump writes to PROGRESS_PATH itself.
DumpChunkInPlace(w) ==
    /\ wpc[w] = "dump"
    /\ LET full == json_dump(wd[w])
           n    == Min(Len(tmp_file[w]) + ChunkTokens, Len(full))
       IN  /\ tmp_file' = [tmp_file EXCEPT ![w] = SubSeq(full, 1, n)]
           /\ progress_file' = SubSeq(full, 1, n)
           /\ wpc' = [wpc EXCEPT ![w] = IF n = Len(full) THEN "replace" ELSE "dump"]
    /\ UNCHANGED <<leftover, wd, nonStoreVars>>

\* json.dump (line 39): the next tokens reach the temp file; after the last
\* ones the with block closes it.
DumpChunk(w) ==
    /\ wpc[w] = "dump"
    /\ LET full == json_dump(wd[w])
           n    == Min(Len(tmp_file[w]) + ChunkTokens, Len(full))
       IN  /\ tmp_file' = [tmp_file EXCEPT ![w] = SubSeq(full, 1, n)]
           /\ wpc' = [wpc EXCEPT ![w] = IF n = Len(full) THEN "replace" ELSE "dump"]
    /\ UNCHANGED <<progress_file, leftover, wd, nonStoreVars>>

\* A write raises: control passes to the finally clause.
DumpError(w) ==
    /\ wpc[w] = "dump"
    /\ wpc' = [wpc EXCEPT ![w] = "cleanup"]
    /\ UNCHANGED <<progress_file, tmp_file, leftover, wd, nonStoreVars>>

\* os.replace(tmp_path, PROGRESS_PATH) (line 40)
Replace(w) ==
    /\ CanReplace(w)
    /\ progress_file' = tmp_file[w]
    /\ tmp_file' = [tmp_file EXCEPT ![w] = Missing]
    /\ wpc' = [wpc EXCEPT ![w] = "cleanup"]
    /\ UNCHANGED <<leftover, wd, nonStoreVars>>

\* The finally clause (lines 41-46): the temp file is removed if it exists.
Cleanup(w) ==
    /\ wpc[w] = "cleanup"
    /\ tmp_file' = [tmp_file EXCEPT ![w] = Missing]
    /\ wpc' = [wpc EXCEPT ![w] = "idle"]
    /\ UNCHANGED <<progress_file, leftover, wd, nonStoreVars>>

\* The temp files that exist.
OpenTemps == {w \in Writers : tmp_file[w] # Missing}

\* The process dies: every writer stops where it is, and the temp files that
\* exist stay on disk with nobody to remove them.
Crash ==
    /\ \E w \in Writers : wpc[w] # "idle"
    /\ leftover + Cardinality(OpenTemps) <= MaxLeftover
    /\ leftover' = leftover + Cardinality(OpenTemps)
    /\ tmp_file' = [w \in Writers |-> Missing]
    /\ wpc' = [w \in Writers |-> "idle"]
    /\ wd' = [w \in Writers |-> EmptyDict]
    /\ UNCHANGED <<progress_file, nonStoreVars>>

StoreNext ==
    \/ \E w \in Writers :
         \/ UpdBegin(w) \/ Mkstemp(w) \/ DumpChunk(w) \/ DumpError(w)
         \/ Replace(w) \/ Cleanup(w)
    \/ Crash

SpecStore == Init /\ [][StoreNext]_vars

\* The content is one complete JSON document.
Complete(file) == json_load(file).ok /\ json_dump(json_load(file).val) = file

\* C6: at every step of write_progress PROGRESS_PATH is missing or holds one
\* complete record; it changes only by becoming the complete record a writer
\* was given; a crash at any step leaves it as it was; and temp files left
\* behind change nothing of this.
C6_CrashAtomicity ==
    /\ [](progress_file = Missing \/ Complete(progress_file))
    /\ [][/\ Crash => progress_file' = progress_file
          /\ progress_file' # progress_file
               => \E w \in Writers : progress_file' = json_dump(wd[w])]_vars

\* A crash left a temp file behind while a record was committed, and a later
\* write_progress has replaced the file.
C6_Witness ==
    /\ leftover > 0
    /\ \E w \in Writers : wpc[w] = "cleanup" /\ progress_file = json_dump(wd[w])


(***************************************************************************)
(* normalize_child_weblink as a function of arbitrary entries              *)
(***************************************************************************)

\* The characters and the greatest length of the weblinks and names of SpecNorm.
PathChars == {"/", "a", "b"}
MaxPathLen == 3

PathStrings == UNION {[1..n -> PathChars] : n \in 0..MaxPathLen}

\* A call normalize_child_weblink(parent, item) with an entry of any name and
\* weblink; the function does not read parent.
NormCalls ==
    {[op |-> "normalize", parent |-> R, name |-> n, weblink |-> w] :
        n \in PathStrings, w \in PathStrings}

NormInit ==
    /\ SessionInit /\ StoreInit /\ TokenInit
    /\ call \in NormCalls
    /\ result = NoResult
    /\ progress_file = Missing

DoNormalize ==
    /\ call.op = "normalize" /\ ~result.done
    /\ result' = [done |-> TRUE,
                  val |-> normalize_child_weblink(call.parent,
                              FolderItem(call.name, call.weblink))]
    /\ UNCHANGED <<call, progress_file, navVars, pageVars, storeVars, tokenVars>>

NormNext == DoNormalize

SpecNorm == NormInit /\ [][NormNext]_vars

\* The result ends exactly in "/" + name and has no leading or trailing slash.
EndsInName(res, name) ==
    /\ EndsWith(res, <<"/">> \o name)
    /\ res = Strip(res, Slash)

\* The weblink is non-empty and does not already end in "/" + name.
NeedsName(w, name) == w # EmptyStr /\ ~EndsWith(w, <<"/">> \o name)

\* C11 as stated: for every entry whose weblink is non-empty and does not end
\* in "/" + name, whatever the name (empty, or beginning or ending with a
\* slash), the result ends exactly in "/" + name and has no leading or
\* trailing slash.
C11_AsStated ==
    (call.op = "normalize" /\ result.done /\ NeedsName(call.weblink, call.name))
        => EndsInName(result.val, call.name)

\* C11: for every entry whose weblink has a character other than "/" and does
\* not end in "/" + name, and whose name is non-empty and does not end with a
\* slash, the result ends exactly in "/" + name and has no leading or trailing
\* slash.
C11_NormalizeEndsInName ==
    (/\ call.op = "normalize" /\ result.done
     /\ NeedsName(call.weblink, call.name)
     /\ RStrip(call.weblink, Slash) # EmptyStr
     /\ call.name # EmptyStr /\ call.name[Len(call.name)] # "/")
        => EndsInName(result.val, call.name)

\* A weblink with slashes on both sides and a name that begins with a slash
\* have been normalized.
C11_Witness ==
    /\ call.op = "normalize" /\ result.done
    /\ call.weblink = <<"/", "a", "/">>
    /\ call.name = <<"/", "b">>
    /\ result.val = <<"a", "/", "/", "b">>


\* Some writer's os.replace is the step taken.
Renames == \E w \in Writers : Replace(w)

\* C12: under every interleaving of the writers' steps PROGRESS_PATH is missing
\* or one complete document; each rename makes it the complete record of the
\* writer that renames, and no other step changes it, so that after all writers
\* have finished it is the record of the writer that renamed last.
C12_LastWriterWins ==
    /\ [](progress_file = Missing \/ Complete(progress_file))
    /\ [][/\ \A w \in Writers : Replace(w) => progress_file' = json_dump(wd[w])
          /\ ~Renames => progress_file' = progress_file]_vars

\* Two writers that read the same content have both renamed, with different
\* records: the file is the record of one of them and holds nothing of the
\* other's update.
C12_Witness ==
    /\ \A w \in Writers : wpc[w] = "cleanup" /\ tmp_file[w] = Missing
    /\ \E w, v \in Writers :
         /\ wd[w] # wd[v]
         /\ progress_file = json_dump(wd[w])
         /\ DOMAIN PerFolderOf(wd[w]) # DOMAIN PerFolderOf(wd[v])
    /\ Cardinality(DOMAIN PerFolderOf(read_progress(progress_file))) = 1


(***************************************************************************)
(* read_progress and its callers on arbitrary file contents                *)
(***************************************************************************)

\* A file open() cannot read (no permission, a directory, bytes that are not
\* UTF-8): the exception is caught by the except clause of line 30, as the
\* decode error of a document that does not parse.
Unreadable == << <<"Unreadable">> >>

\* The documents update_progress writes, cut off after any number of tokens
\* (the empty file and the whole document included).
Truncated ==
    UNION {{SubSeq(json_dump(p), 1, n) : n \in 0..Len(json_dump(p))} :
              p \in ProgressRecords}

\* Whole documents followed by one more token.
Overlong == {json_dump(p) \o <<RBrace>> : p \in ProgressRecords}

FileContents == {Missing, Unreadable} \cup Truncated \cup Overlong

\* A call of read_progress, of pick_last_for_folder or of update_progress with
\* PROGRESS_PATH holding the content file.
ReadCalls ==
    {[op |-> "read", file |-> c, folder |-> None, filename |-> None, names |-> <<>>] :
        c \in FileContents}
    \cup {[op |-> "pick", file |-> c, folder |-> f, filename |-> None, names |-> ns] :
        c \in FileContents, f \in FnFolders, ns \in {<<F_Zed>>, <<F_random, F_Zed>>}}
    \cup {[op |-> "update", file |-> c, folder |-> f, filename |-> n, names |-> <<>>] :
        c \in FileContents, f \in FnFolders, n \in FnFiles}

ReadInit ==
    /\ SessionInit /\ StoreInit /\ TokenInit
    /\ call \in ReadCalls
    /\ result = NoResult
    /\ progress_file = call.file

DoRead ==
    /\ call.op = "read" /\ ~result.done
    /\ result' = [done |-> TRUE, val |-> read_progress(progress_file)]
    /\ UNCHANGED <<call, progress_file, nonFnVars>>

DoReadPick ==
    /\ call.op = "pick" /\ ~result.done
    /\ result' = [done |-> TRUE,
                  val |-> pick_last_for_folder(progress_file, call.folder, call.names)]
    /\ UNCHANGED <<call, progress_file, nonFnVars>>

DoReadUpdate ==
    /\ call.op = "update" /\ ~result.done
    /\ progress_file' = update_progress(progress_file, call.folder, call.filename)
    /\ result' = [done |-> TRUE, val |-> None]
    /\ UNCHANGED <<call, nonFnVars>>

ReadNext == DoRead \/ DoReadPick \/ DoReadUpdate

SpecRead == ReadInit /\ [][ReadNext]_vars

\* The file is missing, unreadable or not one valid JSON document.
Unusable(file) == file \in {Missing, Unreadable} \/ ~json_load(file).ok

\* The record update_progress(folder, filename) writes when there is no prior
\* state.
FirstRecord(folder, filename) ==
    [k \in {K_last_folder, K_last_file, K_per_folder} |->
        IF k = K_last_folder THEN folder
        ELSE IF k = K_last_file THEN filename
        ELSE [f \in {folder} |-> filename]]

\* C13: when PROGRESS_PATH is missing, unreadable or not valid JSON,
\* read_progress returns the empty record, pick_last_for_folder returns none,
\* and update_progress writes the record of the one selection, as with no
\* prior state.
C13_ReadDegradesToEmpty ==
    (result.done /\ Unusable(call.file)) =>
        /\ call.op = "read" => result.val = EmptyDict
        /\ call.op = "pick" => result.val = None
        /\ call.op = "update" =>
             progress_file = json_dump(FirstRecord(call.folder, call.filename))

\* update_progress has run on a document cut off inside per_folder and has
\* left a valid document.
C13_Witness ==
    /\ result.done /\ call.op = "update"
    /\ Len(call.file) > 6 /\ ~json_load(call.file).ok
    /\ call.file[Len(call.file)][1] = "k"
    /\ json_load(progress_file).ok


(***************************************************************************)
(* The search filter (lines 282-288)                                       *)
(***************************************************************************)

\* name contains t, letters compared without regard to case.
ContainsAnyCase(name, t) ==
    \E i \in 0..(Len(name) - Len(t)) :
        \A j \in 1..Len(t) : LowerChar[name[i + j]] = LowerChar[t[j]]

\* The subsequence of files whose name contains t in any case; all of them
\* when t is empty.
ViewAsStated(files, t) ==
    LET Matches(f) == ContainsAnyCase(f.name, t)
    IN  SelectSeq(files, Matches)

\* A run that the filter started has rendered the list of episodes.
FilterRunShows ==
    /\ ev = "filter"
    /\ pc = "select" \/ (pc = "idle" /\ shown \in ListPart)

\* C14: a run started by typing a filter changes neither the navigation stack
\* nor the offset nor the accumulated lists, and the episodes it displays are
\* exactly the accumulated files whose name contains the typed text in any
\* case, in their order; all of them for the empty text.
C14_FilterFrame ==
    /\ [][ev' = "filter" =>
            UNCHANGED <<nav, offset, loaded_files, loaded_folders>>]_vars
    /\ [](FilterRunShows =>
            /\ Filtered(loaded_files, q_text)
                 = ViewAsStated(loaded_files, Strip(arg, Whitespace))
            /\ arg = EmptyStr => Filtered(loaded_files, q_text) = loaded_files)

\* The text "Ran" was typed with all of the root folder loaded: one of the
\* three files is displayed, the three stay accumulated.
C14_Witness ==
    /\ FilterRunShows /\ pc = "idle" /\ shown = "player"
    /\ arg = <<"R", "a", "n">>
    /\ nav = <<R>> /\ Len(loaded_files) = 3 /\ offset = 5
    /\ NamesOf(Filtered(loaded_files, q_text)) = <<F_random>>


(***************************************************************************)
(* load_first_page_if_needed (lines 230-240)                               *)
(***************************************************************************)

\* Nothing is loaded for the current directory.
NothingLoaded == offset = 0 /\ loaded_files = <<>> /\ loaded_folders = <<>>

\* C15: load_first_page_if_needed sends its listing request (answered or
\* failed) only when offset = 0 and both accumulated lists are empty; in every
\* other state the step through it changes nothing of the session.
C15_FirstPageNoOp ==
    [][/\ (FirstPageLoad \/ FirstPageFail) => NothingLoaded
       /\ (pc = "fetch" /\ ~NothingLoaded) => UNCHANGED navVars
       /\ (pc = "fetch" /\ pc' = "count" /\ NothingLoaded) =>
             offset' = Len(list_dir(Current(Session), 0, PAGE_SIZE).list)]_vars

\* A run started by an episode choice has passed load_first_page_if_needed
\* with more than one page accumulated, and all of it is still there.
C15_Witness ==
    /\ pc = "count" /\ ev = "pick"
    /\ nav = <<R>> /\ offset = Len(Listing(R)) /\ offset > PAGE_SIZE
    /\ Len(loaded_files) = 3 /\ Len(loaded_folders) = 2


(***************************************************************************)
(* Failed listing requests (lines 253-259, 292-299)                        *)
(***************************************************************************)

\* A listing request of the running script fails.
ListingFails == FirstPageFail \/ CountFail \/ LoadMoreFail

\* C16: a failed listing request (first page, count query or load_more)
\* leaves the navigation stack, the offset and the accumulated lists as they
\* were, and ends the interaction there: the script stops, nothing of the
\* progress file is written, and no further run is started on its own.
C16_FailedListingHalts ==
    [][ListingFails =>
         /\ UNCHANGED <<nav, offset, loaded_files, loaded_folders>>
         /\ progress_file' = progress_file
         /\ pc' = "idle" /\ ~rerun']_vars


(***************************************************************************)
(* The age of the token handed out (lines 48-64)                           *)
(***************************************************************************)

\* The session holds a token whose age at the run now starting exceeds the
\* threshold of line 61.
HeldPastThreshold ==
    token # 0 /\ token_ts # -1 /\ (now_ts + 1) - token_ts > TOKEN_MAX_AGE

\* C17: a run that asks for the token once the held token's age exceeds the
\* refresh threshold is handed a reissued token, not the held one, also when
\* the held token came from the memoized fetch; so no token older than the
\* threshold is handed out.
C17_ReissuedPastThreshold ==
    [][(TokRun /\ HeldPastThreshold) => token' # token]_vars


(***************************************************************************)
(* Folder entries without a path (lines 270-279)                           *)
(***************************************************************************)

\* The run was started by choosing a folder entry for which
\* normalize_child_weblink returns the empty string.
ChoseNoPath ==
    /\ ev = "open"
    /\ \E i \in 1..Len(loaded_folders) :
         /\ loaded_folders[i].name = arg
         /\ normalize_child_weblink(Current(Session), loaded_folders[i]) = EmptyStr

\* C18: no step of a run started by choosing a folder entry without a path
\* changes the navigation stack, the offset, the accumulated lists or the
\* selection, and the empty path is never an element of the stack.
C18_NoPathNotNavigable ==
    /\ [](\A i \in 1..Len(nav) : nav[i] # EmptyStr)
    /\ [][ChoseNoPath' =>
            UNCHANGED <<nav, offset, loaded_files, loaded_folders, selected_name>>]_vars

\* The run for the choice of folder "B", which has no weblink, has ended with
\* the root folder still current and its five entries still accumulated.
C18_Witness ==
    /\ ChoseNoPath /\ arg = <<"B">>
    /\ pc = "idle" /\ shown = "player"
    /\ nav = <<R>> /\ offset = 5 /\ selected_name # None


(***************************************************************************)
(* The "Next" button (lines 328-331)                                       *)
(***************************************************************************)

\* "Next" has been pressed and the rerun it asked for is due.
NextPressed == pc = "idle" /\ rerun /\ ev = "next"

\* C19: pressing "Next" with the episode at index i selected sets the
\* selection to the episode at index min(i + 1, last), and the rerun that
\* follows takes that episode as its default selection and records it as the
\* folder's progress, whatever the progress file holds for the folder.
C19_NextAdvances ==
    /\ [][NextEpisode =>
            selected_name' = RunNames[Min(IndexOf(RunSelected, RunNames) + 1,
                                          Len(RunNames))]]_vars
    /\ [](NextPressed =>
            /\ DefaultName(progress_file, Session, RunNames) = selected_name
            /\ DictGet(PerFolderOf(read_progress(
                   update_progress(progress_file, Current(Session),
                       DefaultName(progress_file, Session, RunNames)))),
                   Current(Session)) = selected_name)


(***************************************************************************)
(* Completeness of loading (lines 230-251, 290-299)                        *)
(***************************************************************************)

\* The page shows the list of the current directory without the button
\* "Load more files".
LoadMoreNotOffered ==
    /\ pc = "idle" /\ ~rerun /\ shown \in ListPart
    /\ ~MorePossible(Session)

\* C20: whenever "Load more files" is not offered, the accumulated lists hold
\* every file and every subfolder of the current directory exactly once,
\* wherever in its listing the service puts the folders.
C20_LoadingComplete ==
    LoadMoreNotOffered =>
        LET all    == Listing(Current(Session))
            loaded == loaded_files \o loaded_folders
        IN  /\ Len(loaded) = Len(all)
            /\ \A i \in 1..Len(all) : InList(all[i], loaded)

=============================================================================
